---- MODULE Spec2Model ----
(***************************************************************************)
(* Faro Fino (src/bot.py): a Telegram bot that polls a news feed for       *)
(* articles matching the owner's keywords and notifies the owner.          *)
(*                                                                         *)
(* The model follows the asyncio structure of the program: the monitor     *)
(* task (monitor_loop) and the update handlers are coroutines on one event *)
(* loop, so a step of the model is the code between two awaits.  Update    *)
(* handlers are run one at a time by the Application; the monitor task     *)
(* runs beside them.                                                       *)
(*                                                                         *)
(* Strings are sequences of one-character strings, so that lower(), the    *)
(* substring test, strip() and split() are computed and not assumed.       *)
(***************************************************************************)
EXTENDS Integers, Sequences, FiniteSets, TLC

VARIABLES
    file,    \* CONFIG_PATH on disk: missing, whole, or partial (a write cut short)
    store,   \* the last record written whole to CONFIG_PATH (the defaults before the first)
    cyc,     \* the two invocations of process_news: "auto" (monitor_loop), "manual" (check_now)
    rst,     \* restore_handler between its load_config and its save_config
    bkp,     \* a handler between its reply and the do_backup it goes on to call
    sent,    \* per link, whether its notification reached the owner: never, once, again
    last,    \* the step taken last, for the steps the properties name
    probe    \* arguments and result of one run of the selection loop (SpecFilter)

vars == <<file, store, cyc, rst, bkp, sent, last, probe>>

----------------------------------------------------------------------------
(* Bounds of the model *)

\* articles in one fetch result
MaxBatch == 2

----------------------------------------------------------------------------
(* Program constants *)

DIAS_FILTRO_NOTICIAS == 3

None == "None"

----------------------------------------------------------------------------
(* Strings *)

Range(s) == {s[i] : i \in 1..Len(s)}

\* code points of the characters used, for Python's string order
Ord(c) ==
    CASE c = " " -> 32
      [] c = "#" -> 35
      [] c = "," -> 44
      [] c = "@" -> 64
      [] c = "A" -> 65
      [] c = "B" -> 66
      [] c = "a" -> 97
      [] c = "b" -> 98

LowerChar(c) ==
    CASE c = "A" -> "a"
      [] c = "B" -> "b"
      [] OTHER -> c

\* str.lower()
lower(s) == [i \in 1..Len(s) |-> LowerChar(s[i])]

\* Python's  sub in s  for strings
Contains(sub, s) ==
    \E p \in 0..(Len(s) - Len(sub)) : SubSeq(s, p + 1, p + Len(sub)) = sub

\* Python's  s < t  for strings (code point order, a proper prefix is smaller)
RECURSIVE StrLess(_, _)
StrLess(s, t) ==
    IF t = <<>> THEN FALSE
    ELSE IF s = <<>> THEN TRUE
    ELSE IF Ord(Head(s)) # Ord(Head(t)) THEN Ord(Head(s)) < Ord(Head(t))
    ELSE StrLess(Tail(s), Tail(t))

\* sorted(list(S)) for a set of strings
RECURSIVE sorted(_)
sorted(S) ==
    IF S = {} THEN <<>>
    ELSE LET m == CHOOSE x \in S : \A y \in S \ {x} : StrLess(x, y)
         IN  <<m>> \o sorted(S \ {m})

\* str.strip() (blanks only)
RECURSIVE lstrip(_)
lstrip(s) == IF s # <<>> /\ Head(s) = " " THEN lstrip(Tail(s)) ELSE s

RECURSIVE rstrip(_)
rstrip(s) ==
    IF s # <<>> /\ s[Len(s)] = " " THEN rstrip(SubSeq(s, 1, Len(s) - 1)) ELSE s

strip(s) == rstrip(lstrip(s))

\* str.split(','): the pieces between the commas, in order
RECURSIVE split(_, _)
split(s, piece) ==
    IF s = <<>> THEN <<piece>>
    ELSE IF Head(s) = "," THEN <<piece>> \o split(Tail(s), <<>>)
    ELSE split(Tail(s), Append(piece, Head(s)))

----------------------------------------------------------------------------
(* The inputs *)

Users == {"u1", "u2"}
Links == {"L1", "L2"}

\* publish dates and clock readings, in days
Nows == {4, 5}

\* "Ab" from "B", recent; the same, three days older; "ba" from "B"; "A" from "A"
A1 == [title |-> <<"A", "b">>, link |-> "L1", source |-> <<"B">>, date |-> 2]
A2 == [title |-> <<"A", "b">>, link |-> "L1", source |-> <<"B">>, date |-> 0]
A3 == [title |-> <<"b", "a">>, link |-> "L2", source |-> <<"B">>, date |-> 1]
A4 == [title |-> <<"A">>, link |-> "L2", source |-> <<"A">>, date |-> 2]

Articles == {A1, A2, A3, A4}

\* the articles the feed carries while the program runs
Feed == {A1, A3}

SeqsUpTo(S, n) == UNION {[1..k -> S] : k \in 0..n}

\* an <item> of the feed: the article it describes and what its pubDate is to
\* parsedate_to_datetime (a date, a text that is no date, or no element at all)
Item(article, pubDate) == [article |-> article, pubDate |-> pubDate]

FeedItems(articles) ==
    {Item(a, "rfc2822") : a \in articles}
        \cup {Item(A1, "unparsable"), Item(A3, "absent")}

\* what client.get does: it raises (no network, a timeout), or it returns a
\* response whose content has these items
NoResponse == [raised |-> TRUE, items |-> <<>>]

Responses(articles) ==
    {NoResponse} \cup
    {[raised |-> FALSE, items |-> s] : s \in SeqsUpTo(FeedItems(articles), MaxBatch)}

\* the loop of fetch_news: an item without a date raises, and the except
\* branch is left with the items appended so far
RECURSIVE news_items(_, _)
news_items(items, parsed) ==
    IF items = <<>> THEN parsed
    ELSE IF Head(items).pubDate # "rfc2822" THEN parsed
    ELSE news_items(Tail(items), Append(parsed, Head(items).article))

\* fetch_news: nothing without keywords, else the try block and what is left
\* of news_items when it ends
fetch_news(keywords, response) ==
    IF keywords = <<>> \/ response.raised THEN <<>>
    ELSE news_items(response.items, <<>>)

\* what fetch_news may return to process_news, which calls it with keywords
Batches == {fetch_news(<<"k">>, response) : response \in Responses(Feed)}

\* messages the owner may type
Texts ==
    { <<"@", "a", "B">>,
      <<"@", " ", "a", " ", "b", ",", "a", "B">>,
      <<"#", "a", "B", ",", " ">>,
      <<"#", "a", " ", "b">>,
      <<"a", "b">> }

\* the files the owner may upload: the text of the file as json.loads sees it
\* (an object, an array, or no JSON at all) and, for an object, its members
Object(data) == [json |-> "object", data |-> data]

Docs ==
    { Object([keywords |-> <<<<"a", "B">>>>, monitoring_on |-> TRUE]),
      Object([keywords |-> <<>>, monitoring_on |-> FALSE]),
      Object([keywords |-> <<<<"a", " ", "b">>>>, monitoring_on |-> FALSE]),
      Object([keywords |-> <<<<"a", "B">>>>]),
      [json |-> "array", data |-> <<>>],
      [json |-> "invalid", data |-> <<>>] }

----------------------------------------------------------------------------
(* Persistence *)

DEFAULT_CONFIG ==
    [owner_id |-> None, keywords |-> <<>>, monitoring_on |-> FALSE, history |-> {}]

\* list(history): the links of a set in some order
RECURSIVE list(_)
list(S) ==
    IF S = {} THEN <<>>
    ELSE LET x == CHOOSE y \in S : TRUE IN <<x>> \o list(S \ {x})

\* the JSON text save_config writes: history as an array
to_save(config) == [config EXCEPT !.history = list(config.history)]

\* load_config where the file is missing or whole: the defaults, or the record
\* with history read back as a set.  (On a partial file json.load raises.)
load_config ==
    IF file = "missing" THEN DEFAULT_CONFIG
    ELSE [store EXCEPT !.history = Range(store.history)]

\* save_config run to its end
save_config(config) == store' = to_save(config) /\ file' = "whole"

----------------------------------------------------------------------------
(* process_news: the selection loop *)

\* the text the keywords are looked up in
text_to_check(article) == lower(article.title \o <<" ">> \o article.source)

\* the keyword looked up as typed (k in text_to_check)
KeywordFound_AsTyped(k, article) == Contains(k, text_to_check(article))

\* k.lower() in text_to_check
KeywordFound(k, article) == Contains(lower(k), text_to_check(article))

\* the test that skips an article: seen before, or older than the date limit
Skipped(article, history, date_limit) ==
    article.link \in history \/ article.date < date_limit

\* the loop testing every link against the loaded history only, the selected
\* links added to it when the loop is over
RECURSIVE SelectNews_LoadedHistory(_, _, _, _, _)
SelectNews_LoadedHistory(found_news, history, new_articles, keywords, date_limit) ==
    IF found_news = <<>>
    THEN [new_articles |-> new_articles,
          history |-> history \cup {new_articles[i].link : i \in 1..Len(new_articles)}]
    ELSE LET article == Head(found_news)
             rest == Tail(found_news)
         IN  IF ~Skipped(article, history, date_limit)
                /\ \E i \in 1..Len(keywords) : KeywordFound(keywords[i], article)
             THEN SelectNews_LoadedHistory(
                      rest, history,
                      Append(new_articles,
                             [title |-> article.title, link |-> article.link,
                              source |-> article.source, date |-> article.date,
                              found_keywords |->
                                  SelectSeq(keywords, LAMBDA k : KeywordFound(k, article))]),
                      keywords, date_limit)
             ELSE SelectNews_LoadedHistory(rest, history, new_articles, keywords, date_limit)

\* the for loop over found_news: new_articles and config['history'] as it leaves them
RECURSIVE SelectNews(_, _, _, _, _)
SelectNews(found_news, history, new_articles, keywords, date_limit) ==
    IF found_news = <<>>
    THEN [new_articles |-> new_articles, history |-> history]
    ELSE LET article == Head(found_news)
             rest == Tail(found_news)
         IN  IF Skipped(article, history, date_limit)
             THEN SelectNews(rest, history, new_articles, keywords, date_limit)
             ELSE IF \E i \in 1..Len(keywords) : KeywordFound(keywords[i], article)
             THEN SelectNews(
                      rest,
                      history \cup {article.link},
                      Append(new_articles,
                             [title |-> article.title, link |-> article.link,
                              source |-> article.source, date |-> article.date,
                              found_keywords |->
                                  SelectSeq(keywords, LAMBDA k : KeywordFound(k, article))]),
                      keywords, date_limit)
             ELSE SelectNews(rest, history, new_articles, keywords, date_limit)

date_limit(now) == now - DIAS_FILTRO_NOTICIAS

----------------------------------------------------------------------------
(* process_news: the cycle *)

Tasks == {"auto", "manual"}

\* a task outside process_news: the monitor loop asleep, no check_now running
Idle(p) ==
    [pc |-> IF p = "auto" THEN "sleep" ELSE "idle",
     config |-> DEFAULT_CONFIG, new_articles |-> <<>>, idx |-> 0]

\* an exception leaves process_news: monitor_loop does not catch it and its task
\* ends; the Application catches it for a handler
Raised(p) == IF p = "auto" THEN [Idle(p) EXCEPT !.pc = "dead"] ELSE Idle(p)

\* process_news has returned: the automatic cycle goes on to its summary message
Returned(p, config) ==
    IF p = "auto"
    THEN [Idle(p) EXCEPT !.pc = "ping", !.config.owner_id = config.owner_id]
    ELSE Idle(p)

\* what last records: the start of a cycle (by: the user who asked for a manual
\* one), a failed send (with the number of articles of the batch after it), the
\* end of a restore, a backup document sent (by: the user whose command led to
\* it); every other step leaves Other
NoDocument == [json |-> "invalid", data |-> <<>>]
Did(op, who) ==
    [op |-> op, who |-> who, link |-> "-", left |-> 0, by |-> "-", document |-> NoDocument]
Failed(who, link, left) == [Did("send_failed", who) EXCEPT !.link = link, !.left = left]
Other == Did("-", "-")

\* not owner_id or not keywords
NothingConfigured(config) == config.owner_id = None \/ config.keywords = <<>>

\* the flag read the wrong way round (... and is_manual)
GateClosed_Inverted(config, is_manual) == ~config.monitoring_on /\ is_manual

\* not config.get("monitoring_on") and not is_manual
GateClosed(config, is_manual) == ~config.monitoring_on /\ ~is_manual

\* process_news up to its first await
ProcessNewsBegin(p) ==
    LET config == load_config
        is_manual == (p = "manual")
    IN  IF NothingConfigured(config)
        THEN IF is_manual
             THEN [Idle(p) EXCEPT !.pc = "notice", !.config = config]
             ELSE Idle(p)
        ELSE IF GateClosed(config, is_manual)
        THEN Idle(p)
        ELSE [Idle(p) EXCEPT !.pc = "fetch", !.config = config]

InCycle(p) == cyc[p].pc \in {"fetch", "send", "save"}

NoBackup == [pc |-> "idle", by |-> "-"]

HandlerFree == cyc["manual"].pc = "idle" /\ rst.pc = "idle" /\ bkp.pc = "idle"

\* monitor_loop: the sleep is over (or the task has just started), process_news is called
Tick ==
    /\ cyc["auto"].pc = "sleep"
    /\ cyc' = [cyc EXCEPT !["auto"] = ProcessNewsBegin("auto")]
    /\ last' = Did("begin", "auto")
    /\ UNCHANGED <<file, store, rst, bkp, sent, probe>>

\* check_now, from any user: the reply, then process_news(is_manual=True)
CheckNow(u, ok) ==
    /\ HandlerFree
    /\ IF ok
       THEN /\ cyc' = [cyc EXCEPT !["manual"] = ProcessNewsBegin("manual")]
            /\ last' = [Did("begin", "manual") EXCEPT !.by = u]
       ELSE /\ UNCHANGED cyc
            /\ last' = Other
    /\ UNCHANGED <<file, store, rst, bkp, sent, probe>>

\* "Nenhuma palavra-chave configurada." to chat_id=owner_id
Notice(ok) ==
    /\ cyc["manual"].pc = "notice"
    /\ ok => cyc["manual"].config.owner_id # None
    /\ cyc' = [cyc EXCEPT !["manual"] = Idle("manual")]
    /\ last' = Other
    /\ UNCHANGED <<file, store, rst, bkp, sent, probe>>

\* fetch_news has returned found_news: the selection loop, then either the first
\* send or, with nothing new, save_config
Fetched(p, found_news, now) ==
    /\ cyc[p].pc = "fetch"
    /\ LET config == cyc[p].config
           r == SelectNews(found_news, config.history, <<>>, config.keywords,
                           date_limit(now))
           config2 == [config EXCEPT !.history = r.history]
       IN  IF r.new_articles # <<>>
           THEN /\ cyc' = [cyc EXCEPT ![p] =
                       [pc |-> "send", config |-> config2,
                        new_articles |-> r.new_articles, idx |-> 1]]
                /\ UNCHANGED <<file, store>>
           ELSE /\ save_config(config2)
                /\ cyc' = [cyc EXCEPT ![p] = Returned(p, config2)]
    /\ last' = Other
    /\ UNCHANGED <<rst, bkp, sent, probe>>

\* one more notification of a link has reached the owner
Delivered(before) == IF before = "never" THEN "once" ELSE "again"

\* send_notifications catching the exception of a send and going on with the batch
Send_Swallowing(p, ok) ==
    /\ cyc[p].pc = "send"
    /\ LET c == cyc[p]
           article == c.new_articles[c.idx]
       IN  /\ sent' = IF ok THEN [sent EXCEPT ![article.link] = Delivered(@)] ELSE sent
           /\ cyc' = [cyc EXCEPT ![p] =
                  IF c.idx < Len(c.new_articles)
                  THEN [c EXCEPT !.idx = c.idx + 1]
                  ELSE [c EXCEPT !.pc = "save"]]
           /\ last' = IF ok THEN Other
                      ELSE Failed(p, article.link, Len(c.new_articles) - c.idx)
    /\ UNCHANGED <<file, store, rst, bkp, probe>>

\* send_notifications: one send_message has returned or raised
Send(p, ok) ==
    /\ cyc[p].pc = "send"
    /\ LET c == cyc[p]
           article == c.new_articles[c.idx]
       IN  IF ok
           THEN /\ sent' = [sent EXCEPT ![article.link] = Delivered(@)]
                /\ cyc' = [cyc EXCEPT ![p] =
                       IF c.idx < Len(c.new_articles)
                       THEN [c EXCEPT !.idx = c.idx + 1]
                       ELSE [c EXCEPT !.pc = "save"]]
                /\ last' = Other
           ELSE /\ cyc' = [cyc EXCEPT ![p] = Raised(p)]
                /\ last' = Failed(p, article.link, Len(c.new_articles) - c.idx)
                /\ UNCHANGED sent
    /\ UNCHANGED <<file, store, rst, bkp, probe>>

\* after the last asyncio.sleep(1): save_config(config).  A manual cycle ends
\* here: the reply of check_now that follows writes none of the variables.
Save(p) ==
    /\ cyc[p].pc = "save"
    /\ save_config(cyc[p].config)
    /\ cyc' = [cyc EXCEPT ![p] = Returned(p, cyc[p].config)]
    /\ last' = Other
    /\ UNCHANGED <<rst, bkp, sent, probe>>

\* the summary message of an automatic cycle has been sent or has raised
Ping(ok) ==
    /\ cyc["auto"].pc = "ping"
    /\ cyc' = [cyc EXCEPT !["auto"] = IF ok THEN Idle("auto") ELSE Raised("auto")]
    /\ last' = Other
    /\ UNCHANGED <<file, store, rst, bkp, sent, probe>>

----------------------------------------------------------------------------
(* The commands.  A handler starts when no other handler is running. *)

is_owner(u, config) == u = config.owner_id

\* /start taking the sender as owner whether or not an owner is set
start_Overwrites(u) ==
    /\ HandlerFree
    /\ load_config.owner_id = None => u = "u1"
    /\ save_config([load_config EXCEPT !.owner_id = u])
    /\ last' = Other
    /\ UNCHANGED <<cyc, rst, bkp, sent, probe>>

\* The users are interchangeable: the one who sends the first /start is called u1.
start(u) ==
    /\ HandlerFree
    /\ load_config.owner_id = None => u = "u1"
    /\ LET config == load_config
       IN  IF config.owner_id = None
           THEN /\ save_config([config EXCEPT !.owner_id = u])
                /\ last' = Other
           ELSE /\ UNCHANGED <<file, store>>
                /\ last' = Other
    /\ UNCHANGED <<cyc, rst, bkp, sent, probe>>

toggle_monitoring(u) ==
    /\ HandlerFree
    /\ LET config == load_config
       IN  IF ~is_owner(u, config)
           THEN /\ UNCHANGED <<file, store>>
                /\ last' = Other
           ELSE /\ save_config([config EXCEPT !.monitoring_on = ~config.monitoring_on])
                /\ last' = Other
    /\ UNCHANGED <<cyc, rst, bkp, sent, probe>>

\* [k.strip() for k in text[1:].split(',') if k.strip()]
items(text) ==
    LET pieces == split(Tail(text), <<>>)
        stripped == [i \in 1..Len(pieces) |-> strip(pieces[i])]
    IN  SelectSeq(stripped, LAMBDA k : k # <<>>)

\* the keyword list text_handler saves for a message starting with '@' or '#'
NewKeywords(config, text) ==
    LET keywords == Range(config.keywords)
        its == items(text)
    IN  IF Head(text) = "@"
        THEN LET added == SelectSeq(its, LAMBDA k : k \notin keywords)
             IN  sorted(keywords \cup Range(added))
        ELSE LET removed == SelectSeq(its, LAMBDA k : k \in keywords)
             IN  sorted(keywords \ Range(removed))

\* changed: some item was added, or removed
Changed(config, text) ==
    LET keywords == Range(config.keywords)
        its == items(text)
    IN  IF Head(text) = "@"
        THEN \E i \in 1..Len(its) : its[i] \notin keywords
        ELSE \E i \in 1..Len(its) : its[i] \in keywords

\* text_handler up to the reply that follows save_config; with changed set it
\* goes on to do_backup.  The last reply writes none of the variables.
text_handler(u, message) ==
    /\ HandlerFree
    /\ LET config == load_config
           text == strip(message)
       IN  IF ~is_owner(u, config) \/ text = <<>> \/ Head(text) \notin {"@", "#"}
           THEN /\ UNCHANGED <<file, store, bkp>>
                /\ last' = Other
           ELSE /\ save_config([config EXCEPT !.keywords = NewKeywords(config, text)])
                /\ bkp' = IF Changed(config, text) THEN [pc |-> "reply", by |-> u] ELSE NoBackup
                /\ last' = Other
    /\ UNCHANGED <<cyc, rst, sent, probe>>

\* backup_command, from any user, up to its reply
backup_command(u) ==
    /\ HandlerFree
    /\ bkp' = [pc |-> "reply", by |-> u]
    /\ last' = Other
    /\ UNCHANGED <<file, store, cyc, rst, sent, probe>>

\* the document with the whole config in it, as save_config writes it
json_data_WholeConfig(config) == Object(to_save(config))

\* json.dumps(backup_data): the text of an object with the two members
json_data(config) ==
    Object([keywords |-> config.keywords, monitoring_on |-> config.monitoring_on])

\* the reply has returned and do_backup runs: without an owner it returns, else
\* the document is sent to chat_id=owner_id (ok), or send_document raises and the
\* failure is logged; or the reply raised and do_backup is never called
do_backup(ok) ==
    /\ bkp.pc = "reply"
    /\ LET config == load_config
       IN  last' = IF ok /\ config.owner_id # None
                   THEN [Did("backup", "handler") EXCEPT
                            !.by = bkp.by, !.document = json_data(config)]
                   ELSE Other
    /\ bkp' = NoBackup
    /\ UNCHANGED <<file, store, cyc, rst, sent, probe>>

NoRestore == [pc |-> "idle", config |-> DEFAULT_CONFIG, document |-> NoDocument]

\* restore_handler up to its first await: named says whether the file name has
\* "backup" in it and ends with .json
restore_handler(u, document, named) ==
    /\ HandlerFree
    /\ LET config == load_config
       IN  IF is_owner(u, config) /\ named
           THEN /\ rst' = [pc |-> "download", config |-> config, document |-> document]
                /\ last' = Other
           ELSE /\ UNCHANGED rst
                /\ last' = Other
    /\ UNCHANGED <<file, store, cyc, bkp, sent, probe>>

\* json.loads(content) followed by the two backup_data.get calls returns:
\* the text is JSON and its value has a get method
Loads(document) == document.json = "object"

\* backup_data.get(key, default)
get(backup_data, key, default) ==
    IF key \in DOMAIN backup_data THEN backup_data[key] ELSE default

\* the restored config built from the defaults instead of the loaded config
Restored_FromDefaults(config, backup_data) ==
    [DEFAULT_CONFIG EXCEPT !.owner_id = config.owner_id,
                           !.keywords = get(backup_data, "keywords", <<>>),
                           !.monitoring_on = get(backup_data, "monitoring_on", FALSE)]

\* the two assignments restore_handler makes to the config it loaded
Restored(config, backup_data) ==
    [config EXCEPT !.keywords = get(backup_data, "keywords", <<>>),
                   !.monitoring_on = get(backup_data, "monitoring_on", FALSE)]

\* the download has ended (ok), or the first reply or the download raised.
\* After the download the file is parsed and the config saved, or the parse
\* raised and the except branch replies with the error.
restore_done(ok) ==
    /\ rst.pc = "download"
    /\ IF ok /\ Loads(rst.document)
       THEN /\ save_config(Restored(rst.config, rst.document.data))
            /\ last' = Did("restored", "handler")
       ELSE IF ok
       THEN /\ UNCHANGED <<file, store>>
            /\ last' = Did("restore_error", "handler")
       ELSE /\ UNCHANGED <<file, store>>
            /\ last' = Other
    /\ rst' = NoRestore
    /\ UNCHANGED <<cyc, bkp, sent, probe>>

----------------------------------------------------------------------------
(* The program *)

NoProbe ==
    [response |-> NoResponse, found_news |-> <<>>, history |-> {}, keywords |-> <<>>,
     date_limit |-> 0, new_articles |-> <<>>, new_history |-> {}]

Init ==
    /\ file = "missing"
    /\ store = to_save(DEFAULT_CONFIG)
    /\ cyc = [p \in Tasks |-> Idle(p)]
    /\ rst = NoRestore
    /\ bkp = NoBackup
    /\ sent = [l \in Links |-> "never"]
    /\ last = Other
    /\ probe = NoProbe

\* one run of fetch_news and the selection loop on arguments of its own
KeywordLists == {sorted(S) : S \in SUBSET {<<"a", "B">>, <<"a", " ", "b">>}}

Select(response, history, keywords, now) ==
    /\ probe = NoProbe
    /\ LET found_news == fetch_news(keywords, response)
           r == SelectNews(found_news, history, <<>>, keywords, date_limit(now))
       IN  probe' = [response |-> response, found_news |-> found_news,
                     history |-> history,
                     keywords |-> keywords, date_limit |-> date_limit(now),
                     new_articles |-> r.new_articles, new_history |-> r.history]
    /\ UNCHANGED <<file, store, cyc, rst, bkp, sent, last>>

\* the steps of the program; outcomes are what a call to the transport may do
\* (TRUE: it returns, FALSE: it raises)
Step(outcomes) ==
    \/ Tick
    \/ \E u \in Users, ok \in outcomes : CheckNow(u, ok)
    \/ \E ok \in outcomes : Notice(ok)
    \/ \E p \in Tasks, found_news \in Batches, now \in Nows : Fetched(p, found_news, now)
    \/ \E p \in Tasks, ok \in outcomes : Send(p, ok)
    \/ \E p \in Tasks : Save(p)
    \/ \E ok \in outcomes : Ping(ok)
    \/ \E u \in Users : start(u)
    \/ \E u \in Users : toggle_monitoring(u)
    \/ \E u \in Users, message \in Texts : text_handler(u, message)
    \/ \E u \in Users, document \in Docs, named \in BOOLEAN :
           restore_handler(u, document, named)
    \/ \E ok \in outcomes : restore_done(ok)
    \/ \E u \in Users : backup_command(u)
    \/ \E ok \in outcomes : do_backup(ok)

Next == Step(BOOLEAN)

Spec == Init /\ [][Next]_vars

\* at most one of the load ... save sections is open: an automatic cycle, or a
\* manual cycle, or a restore
Serial ==
    ~((InCycle("auto") \/ cyc["auto"].pc = "ping")
        /\ (InCycle("manual") \/ rst.pc = "download"))

\* the program when its cycles and restores happen not to overlap
NextSerial == Next /\ Serial'

SpecSerial == Init /\ [][NextSerial]_vars

\* the program when no call to the transport raises
NextNoFail == Step({TRUE})

SpecNoFail == Init /\ [][NextNoFail]_vars

\* fetch_news and the selection loop alone, on every response, history, keyword
\* list and clock
NextFilter ==
    \E response \in Responses(Articles), history \in SUBSET Links,
       keywords \in KeywordLists, now \in Nows :
        Select(response, history, keywords, now)

SpecFilter == Init /\ [][NextFilter]_vars

\* the commands that write the keyword list, with a keyword that differs from
\* another in case only and a document whose list is not in sorted order
KeywordTexts == Texts \cup { <<"@", "A", "b">> }

KeywordDocs ==
    Docs \cup { Object([keywords |-> << <<"a", "B">>, <<"a", " ", "b">> >>,
                        monitoring_on |-> TRUE]) }

NextKeywords ==
    \/ \E u \in Users : start(u)
    \/ \E u \in Users, message \in KeywordTexts : text_handler(u, message)
    \/ \E u \in Users, document \in KeywordDocs, named \in BOOLEAN :
           restore_handler(u, document, named)
    \/ \E ok \in BOOLEAN : restore_done(ok)
    \/ \E ok \in BOOLEAN : do_backup(ok)

SpecKeywords == Init /\ [][NextKeywords]_vars

\* some step that calls save_config can be taken: a cycle with nothing new or at
\* its end, a command (/start without an owner, a toggle of the owner), a
\* restore whose document has parsed
SaveEnabled ==
    \/ \E p \in Tasks : cyc[p].pc \in {"fetch", "save"}
    \/ HandlerFree
    \/ rst.pc = "download" /\ Loads(rst.document)

\* the process is killed inside save_config, after open(CONFIG_PATH, 'w') has
\* truncated the file and before json.dump has written all of it; the process
\* is started again with its tasks at their beginning
Crash ==
    /\ file # "partial"
    /\ SaveEnabled
    /\ file' = "partial"
    /\ cyc' = [p \in Tasks |-> Idle(p)]
    /\ rst' = NoRestore
    /\ bkp' = NoBackup
    /\ last' = Did("crash", "-")
    /\ UNCHANGED <<store, sent, probe>>

\* load_config on a partial file: json.load raises.  In the monitor task the
\* exception ends the task; in a handler it ends the handler.
LoadFails(who) ==
    /\ file = "partial"
    /\ IF who = "auto"
       THEN /\ cyc["auto"].pc = "sleep"
            /\ cyc' = [cyc EXCEPT !["auto"] = Raised("auto")]
       ELSE UNCHANGED cyc
    /\ last' = Did("load_failed", who)
    /\ UNCHANGED <<file, store, rst, bkp, sent, probe>>

\* the program with crashes: while the file is partial every step that can be
\* taken begins with load_config
NextCrash ==
    \/ file # "partial" /\ Next
    \/ Crash
    \/ \E who \in {"auto", "handler"} : LoadFails(who)

SpecCrash == Init /\ [][NextCrash]_vars

----------------------------------------------------------------------------
(* Properties *)

history == Range(store.history)

\* C1: over cycles and restores that do not overlap, sends failing or not, a
\* link whose notification has reached the owner is never sent again.
C1_SentLinkNeverSentAgain ==
    [][\A l \in Links : sent[l] # "never" => sent'[l] = sent[l]]_vars

\* C2: when the send of an article fails and articles of the batch come after
\* it, the task goes on to send the next one; and once the cycle is over the
\* failed link is in the persisted history.
C2_FailedSendIsolated ==
    (last.op = "send_failed" /\ last.left > 0) =>
        /\ cyc[last.who].pc = "send"
        /\ ~InCycle(last.who) => last.link \in history

\* C3: no exception in an automatic cycle ends the monitor loop: after a
\* failed automatic cycle the loop is asleep again, never terminated.
C3_ClockSurvives ==
    /\ cyc["auto"].pc # "dead"
    /\ (last.op = "send_failed" /\ last.who = "auto") => cyc["auto"].pc = "sleep"

\* C4: the selection loop selects the candidate at position i exactly when its
\* link is not in the history as it stands at i (the loaded history and the
\* links selected before i), its date is not before the date limit, and some
\* keyword, compared without case, occurs in title + " " + source; the history
\* it leaves is the loaded one plus the selected links.
IgnoringCaseAt(k, text, p) ==
    \A j \in 1..Len(k) : LowerChar(k[j]) = LowerChar(text[p + j])

Matching(a, keywords) ==
    LET text == a.title \o <<" ">> \o a.source
    IN  {i \in 1..Len(keywords) :
            \E p \in 0..(Len(text) - Len(keywords[i])) :
                IgnoringCaseAt(keywords[i], text, p)}

Eligible(i) ==
    LET f == probe.found_news
        ok(j) == /\ f[j].link \notin probe.history
                 /\ f[j].date >= probe.date_limit
                 /\ Matching(f[j], probe.keywords) # {}
    IN  ok(i) /\ \A j \in 1..(i - 1) : ~(f[j].link = f[i].link /\ ok(j))

RECURSIVE EligibleUpTo(_)
EligibleUpTo(n) ==
    IF n = 0 THEN <<>>
    ELSE IF Eligible(n) THEN Append(EligibleUpTo(n - 1), probe.found_news[n])
    ELSE EligibleUpTo(n - 1)

C4_Eligibility ==
    LET expected == EligibleUpTo(Len(probe.found_news))
        new == probe.new_articles
    IN  /\ Len(new) = Len(expected)
        /\ \A i \in 1..Len(new) :
              /\ new[i].title = expected[i].title /\ new[i].link = expected[i].link
              /\ new[i].source = expected[i].source /\ new[i].date = expected[i].date
              /\ Range(new[i].found_keywords) =
                     {probe.keywords[j] : j \in Matching(expected[i], probe.keywords)}
              /\ new[i].link \notin probe.history
        /\ probe.new_history =
              probe.history \cup {expected[i].link : i \in 1..Len(expected)}

\* a run that selects one of two recent, matching candidates with the same link
\* and a third candidate is left out
C4_Witness ==
    /\ Len(probe.found_news) = 2
    /\ Len(probe.new_articles) = 1
    /\ probe.found_news[1] = A3 /\ probe.found_news[2] = A3
    /\ probe.date_limit = 1
    /\ probe.history = {"L1"}

\* C5: with an owner and a keyword configured and monitoring off, the start of
\* an automatic cycle changes nothing (no fetch is started, nothing is sent,
\* nothing is saved), and the start of a manual cycle starts the fetch.
C5_MonitoringGate ==
    [][(/\ store.owner_id # None
        /\ store.keywords # <<>>
        /\ ~store.monitoring_on
        /\ last'.op = "begin")
       => IF last'.who = "auto"
          THEN cyc' = cyc /\ sent' = sent /\ store' = store
          ELSE cyc'["manual"].pc = "fetch"]_vars

\* monitoring is off, the tick has just passed without starting a cycle, and a
\* manual check is fetching
C5_Witness ==
    /\ last = Did("begin", "auto")
    /\ cyc["auto"].pc = "sleep"
    /\ cyc["manual"].pc = "fetch"
    /\ ~cyc["manual"].config.monitoring_on
    /\ store.owner_id # None /\ store.keywords # <<>> /\ ~store.monitoring_on

\* C6: the save that ends a cycle keeps the keywords and the monitoring flag
\* that the commands have persisted since the cycle loaded the record, and
\* adds the links of the cycle.
C6_NoLostUpdate ==
    [][\A p \in Tasks :
          (InCycle(p) /\ cyc[p].pc # "send" /\ ~InCycle(p)')
          => /\ store'.keywords = store.keywords
             /\ store'.monitoring_on = store.monitoring_on
             /\ cyc[p].config.history \subseteq history']_vars

\* C7: the automatic cycle and a manual cycle are never both between their
\* load and their save.
C7_OneCycleAtATime == ~(InCycle("auto") /\ InCycle("manual"))

\* C8: when no send fails, the notification of a link reaches the owner at most
\* once, also when a manual check and a tick overlap.
C8_OnceUnderRace == \A l \in Links : sent[l] \in {"never", "once"}

\* C9: no step removes a link from the persisted history.
C9_HistoryOnlyGrows == [][history \subseteq history']_vars

\* C10: a restore from a document with both fields writes the keywords and the
\* monitoring flag of the document and the owner and the history of the record
\* it loaded.
WellFormed(document) ==
    document.json = "object" /\ DOMAIN document.data = {"keywords", "monitoring_on"}

C10_RestoreFrame ==
    [][(rst.pc = "download" /\ WellFormed(rst.document) /\ last'.op = "restored")
       => /\ store'.keywords = rst.document.data.keywords
          /\ store'.monitoring_on = rst.document.data.monitoring_on
          /\ store'.owner_id = rst.config.owner_id
          /\ history' = rst.config.history]_vars

\* an owner with a link in the history has restored a document with a keyword
\* and monitoring on
C10_Witness ==
    /\ last.op = "restored"
    /\ store.owner_id = "u1"
    /\ history # {}
    /\ store.keywords = <<<<"a", "B">>>>
    /\ store.monitoring_on

\* C11: a restore from a document that is not JSON, is not an object, or is an
\* object without the keywords or the monitoring field, ends with the error
\* reported to the owner and the persisted record as it was.
C11_MalformedRestoreRejected ==
    [][(/\ rst.pc = "download"
        /\ ~WellFormed(rst.document)
        /\ last'.op \in {"restored", "restore_error"})
       => last'.op = "restore_error" /\ store' = store]_vars

\* C12: once an owner is persisted, no step (a /start of any user, a keyword
\* command, a toggle, a restore, a save of a cycle) changes the persisted owner.
C12_OwnerSetOnce ==
    [][store.owner_id # None => store'.owner_id = store.owner_id]_vars

\* the owner is still the first user after keyword commands, a toggle, cycles
\* that sent both links, and a restore
C12_Witness ==
    /\ store.owner_id = "u1"
    /\ last.op = "restored"
    /\ history = Links
    /\ store.keywords # <<>>
    /\ store.monitoring_on

\* C13: the persisted keyword list never holds two entries that are equal
\* ignoring case, and is always in sorted order.
C13_KeywordsCanonical ==
    \A i, j \in 1..Len(store.keywords) :
        i < j => /\ lower(store.keywords[i]) # lower(store.keywords[j])
                 /\ ~StrLess(store.keywords[j], store.keywords[i])

\* C14: after a save cut short by a crash, and when there is no file, no
\* load_config fails.
C14_LoadNeverFails == last.op # "load_failed"

\* C15: a backup document sent, on /backup or after a keyword change, is the
\* object with exactly the keywords and the monitoring flag of the persisted
\* record; a record with another owner and another history gives the same
\* document.
C15_BackupContent ==
    last.op = "backup" =>
        /\ last.document =
               Object([keywords |-> store.keywords, monitoring_on |-> store.monitoring_on])
        /\ \A o \in Users, h \in SUBSET Links :
               json_data([load_config EXCEPT !.owner_id = o, !.history = h]) = last.document

\* a backup of a record with a keyword, monitoring on and a link in its history
C15_Witness ==
    /\ last.op = "backup"
    /\ store.keywords # <<>>
    /\ store.monitoring_on
    /\ history # {}

\* C16: of the candidates of one batch that carry the same link, at most one is
\* selected, and it is the first that is recent, matches a keyword and whose
\* link is not in the loaded history; the history the loop leaves holds the link.
OnItsOwn(k) ==
    LET a == probe.found_news[k]
    IN  /\ a.link \notin probe.history
        /\ a.date >= probe.date_limit
        /\ Matching(a, probe.keywords) # {}

C16_DuplicateLinkOnce ==
    LET f == probe.found_news
        new == probe.new_articles
    IN  /\ \A i, j \in 1..Len(new) : new[i].link = new[j].link => i = j
        /\ \A l \in Links :
              LET occurrences == {k \in 1..Len(f) : f[k].link = l /\ OnItsOwn(k)}
              IN  IF occurrences = {}
                  THEN \A i \in 1..Len(new) : new[i].link # l
                  ELSE LET first == CHOOSE k \in occurrences :
                                        \A m \in occurrences : k <= m
                       IN  /\ \E i \in 1..Len(new) :
                                 /\ new[i].link = l
                                 /\ new[i].title = f[first].title
                                 /\ new[i].source = f[first].source
                                 /\ new[i].date = f[first].date
                           /\ l \in probe.new_history

\* the batch holds the same recent, matching article twice, its link not in the
\* history: one is selected and the history is the link
C16_Witness ==
    /\ probe.found_news = <<A1, A1>>
    /\ probe.history = {}
    /\ Len(probe.new_articles) = 1
    /\ probe.new_articles[1].link = "L1"
    /\ probe.new_history = {"L1"}

\* C17: when the fetch fails (client.get raises, or an item of the feed cannot
\* be parsed) fetch_news returns no candidate, nothing is selected and the
\* history is left as loaded.
FetchFailed(response) ==
    response.raised \/ \E i \in 1..Len(response.items) : response.items[i].pubDate # "rfc2822"

C17_FailedFetchIsEmpty ==
    (probe.keywords # <<>> /\ FetchFailed(probe.response)) =>
        /\ probe.found_news = <<>>
        /\ probe.new_articles = <<>>
        /\ probe.new_history = probe.history

\* C18: an item of the feed whose pubDate is absent or unparsable, whose link
\* is not in the history and is carried by no earlier item, and which matches a
\* keyword, is selected.
C18_UndatedSelected ==
    LET its == probe.response.items
    IN  \A i \in 1..Len(its) :
            (/\ its[i].pubDate # "rfc2822"
             /\ its[i].article.link \notin probe.history
             /\ \A j \in 1..(i - 1) : its[j].article.link # its[i].article.link
             /\ Matching(its[i].article, probe.keywords) # {})
            => \E k \in 1..Len(probe.new_articles) :
                   probe.new_articles[k].link = its[i].article.link

\* C19: a /verificar of a user who is not the owner starts no fetch, and no
\* backup document is sent to the owner on the /backup of such a user.
C19_OwnerOnly ==
    /\ (last.op = "begin" /\ last.who = "manual" /\ last.by # store.owner_id)
           => cyc["manual"].pc # "fetch"
    /\ last.op = "backup" => last.by = store.owner_id

\* C20: every link of the persisted history has been delivered to the owner: a
\* cycle saves its new links only when every send of its batch has returned.
C20_HistoryDelivered == \A l \in history : sent[l] # "never"

\* both links are in the persisted history, and a send has failed since
C20_Witness ==
    /\ history = Links
    /\ last.op = "send_failed"

====
